---- MODULE Spec2Model ----
(***************************************************************************)
(* Noura Core: the scheduling coordinator (SchedulingService), its request *)
(* and slot validation, policy-driven enhancement and dispatch to the      *)
(* engine selected at construction; ContactMemory; and the Application    *)
(* lifecycle (initialize, shutdown, isReady).                              *)
(*                                                                         *)
(* Strings that the code inspects character by character (subject, email)  *)
(* are sequences of one-character strings; ISO timestamps are strings that *)
(* `new Date(..)` parses or fails to parse; an optional field is <<>> when *)
(* absent and <<v>> when present.                                          *)
(***************************************************************************)
EXTENDS Integers, Sequences, FiniteSets, TLC

VARIABLES
    ENABLE_SIDEKICK, \* process.env['ENABLE_SIDEKICK'] when the service is constructed
    engine,          \* constructor name of this.engine
    pc,              \* the invocation: "idle", "awaitPropose", "awaitBook", "settled"
    op,              \* the exported operation invoked: "proposeSlots", "confirmSlot"
    passedRequest,   \* the request as the caller passed it
    passedSlot,      \* the chosen slot as the caller passed it
    request,         \* the caller's request object, during and after the call
    engineCalls,     \* the calls of engine.propose / engine.book made by the invocation
    pending,         \* the promise engine.propose / engine.book returned
    outcome,         \* the promise proposeSlots / confirmSlot returned
    log,             \* the records the invocation wrote to the logger
    processEnv,      \* process.env['ENABLE_SIDEKICK'] now
    history,         \* the settled invocations the callers have received, oldest first
    inFlight,        \* the invocations of concurrent callers, one frame per caller
    policy,          \* Policies.scheduling, the object the coordinator reads
    contacts,        \* ContactMemory.contacts: the Map's entries in insertion order
    expected,        \* the finite map the calls so far describe, as (email, profile) pairs
    lastCall,        \* the last ContactMemory call: method, arguments, returned value
    isInitialized,   \* Application.isInitialized
    isShuttingDown,  \* Application.isShuttingDown
    settingsComplete,\* whether settings pass validateConfiguration
    tasks,           \* the initialize() / shutdown() calls of the application's callers
    lifecycle        \* what the callers of Application have observed so far

schedulingVars == <<ENABLE_SIDEKICK, engine, pc, op, passedRequest, passedSlot,
                    request, engineCalls, pending, outcome, log, processEnv, history>>

concurrencyVars == <<inFlight, policy>>

memoryVars == <<contacts, expected, lastCall>>

applicationVars == <<isInitialized, isShuttingDown, settingsComplete, tasks, lifecycle>>

vars == <<ENABLE_SIDEKICK, engine, pc, op, passedRequest, passedSlot,
          request, engineCalls, pending, outcome, log, processEnv, history,
          concurrencyVars, memoryVars, applicationVars>>

(* ---------------------------- bounds ----------------------------------- *)

\* longest attendee list a caller passes
MaxAttendees == 2
\* the parseable timestamps are the hours 1..MaxTime of one day
MaxTime == 2

(* ---------------------------- Policy ----------------------------------- *)

defaultDurationMinutes == 45

(* ------------------------ values and inputs ---------------------------- *)

None == <<>>
Some(v) == <<v>>
IsPresent(o) == o # <<>>
Get(o) == o[1]

Times == 1..MaxTime

IsoString(t) == "2024-01-15T1" \o ToString(t) \o ":00:00.000Z"

\* startISO / endISO / earliestISO / latestISO as callers write them
IsoStrings == {IsoString(t) : t \in Times} \cup {"invalid-date"}

Subjects == {<<>>, <<" ">>, <<" ", "S">>}

Emails == {<<>>, <<"a">>, <<"@">>, <<"a", "@", "b">>}

Attendees == [email : Emails]

AttendeeLists == UNION {[1..n -> Attendees] : n \in 0..MaxAttendees}

Durations == {-30, 0, 30}

Constraints == {[morningOnly |-> TRUE]}

Opt(S) == {None} \cup {Some(v) : v \in S}

MeetingRequest ==
    [subject : Subjects,
     attendees : AttendeeLists,
     durationMinutes : Opt(Durations),
     earliestISO : Opt(IsoStrings),
     latestISO : Opt(IsoStrings),
     constraints : Opt(Constraints)]

TimeWindow == [startISO : IsoStrings, endISO : IsoStrings]

EnvValues == {None, Some("false"), Some("true")}

\* request.attendees of a caller's object without the property: undefined, no
\* attendee list (MeetingRequest types the property as required; JavaScript
\* callers and casts can omit it)
Undefined == <<[undefined |-> TRUE]>>

NoRequest ==
    [subject |-> <<>>, attendees |-> <<>>, durationMinutes |-> None,
     earliestISO |-> None, latestISO |-> None, constraints |-> None]

NoSlot == [startISO |-> "", endISO |-> ""]

(* ------------------------ JavaScript helpers --------------------------- *)

IsWhitespace(ch) == ch = " "

RECURSIVE TrimStart(_)
TrimStart(s) ==
    IF s = <<>> THEN s
    ELSE IF IsWhitespace(Head(s)) THEN TrimStart(Tail(s)) ELSE s

RECURSIVE TrimEnd(_)
TrimEnd(s) ==
    IF s = <<>> THEN s
    ELSE IF IsWhitespace(s[Len(s)]) THEN TrimEnd(SubSeq(s, 1, Len(s) - 1)) ELSE s

\* slip: the subject is tested without trimming
TrimNone(s) == s

\* String.prototype.trim
Trim(s) == TrimEnd(TrimStart(s))

\* String.prototype.includes for a one-character needle
Includes(s, ch) == \E i \in 1..Len(s) : s[i] = ch

InvalidDate == [valid |-> FALSE, time |-> 0]

\* new Date(iso): the instant the string denotes, or an Invalid Date
NewDate(iso) ==
    IF \E t \in Times : IsoString(t) = iso
    THEN [valid |-> TRUE, time |-> CHOOSE t \in Times : IsoString(t) = iso]
    ELSE InvalidDate

\* isNaN(d.getTime())
IsNaNTime(d) == ~d.valid

\* slip: `>` written for `>=`
DateGT(a, b) == a.valid /\ b.valid /\ a.time > b.time

\* a >= b on two Date objects: false as soon as one is an Invalid Date
DateGE(a, b) == a.valid /\ b.valid /\ a.time >= b.time

(* ---------------------------- errors ----------------------------------- *)

NoError == [message |-> "", arg |-> <<>>]

Err(msg) == [message |-> msg, arg |-> <<>>]

ErrArg(msg, a) == [message |-> msg, arg |-> a]

\* what reading a property of undefined throws
TypeError == Err("TypeError: Cannot read properties of undefined (reading 'length')")

(* ------------------ SchedulingService: validation ---------------------- *)

\* slip: the loop remembers the last bad attendee instead of throwing at the first
LastInvalidAttendee(attendees) ==
    CHOOSE i \in 1..Len(attendees) :
        /\ attendees[i].email = <<>> \/ ~Includes(attendees[i].email, "@")
        /\ \A j \in (i + 1)..Len(attendees) :
              attendees[j].email # <<>> /\ Includes(attendees[j].email, "@")

\* the index of the attendee at which the for-loop throws
FirstInvalidAttendee(attendees) ==
    CHOOSE i \in 1..Len(attendees) :
        /\ attendees[i].email = <<>> \/ ~Includes(attendees[i].email, "@")
        /\ \A j \in 1..(i - 1) :
              attendees[j].email # <<>> /\ Includes(attendees[j].email, "@")

\* if (!request.subject || request.subject.trim().length === 0)
CheckSubject(req) ==
    IF req.subject = <<>> \/ Len(Trim(req.subject)) = 0
    THEN Err("Meeting subject is required")
    ELSE NoError

\* slip: only `!request.attendees` is tested, an empty array passes
CheckAttendeesUndefinedOnly(req) ==
    IF req.attendees = Undefined
    THEN Err("At least one attendee is required")
    ELSE NoError

\* if (!request.attendees || request.attendees.length === 0)
CheckAttendees(req) ==
    IF req.attendees = Undefined \/ Len(req.attendees) = 0
    THEN Err("At least one attendee is required")
    ELSE NoError

\* for (const attendee of request.attendees) ... throw for the first bad email
CheckEmails(req) ==
    IF \E i \in 1..Len(req.attendees) :
          req.attendees[i].email = <<>> \/ ~Includes(req.attendees[i].email, "@")
    THEN ErrArg("Invalid email address for attendee: ",
                req.attendees[FirstInvalidAttendee(req.attendees)].email)
    ELSE NoError

\* if (request.durationMinutes && request.durationMinutes <= 0): the first
\* conjunct is JavaScript truthiness, false for an absent duration and for 0
CheckDuration(req) ==
    IF /\ IsPresent(req.durationMinutes)
       /\ Get(req.durationMinutes) # 0
       /\ Get(req.durationMinutes) <= 0
    THEN Err("Meeting duration must be positive")
    ELSE NoError

\* if (request.earliestISO && request.latestISO) { ... earliest >= latest ... }
CheckTimeRange(req) ==
    IF /\ IsPresent(req.earliestISO) /\ Get(req.earliestISO) # ""
       /\ IsPresent(req.latestISO) /\ Get(req.latestISO) # ""
       /\ DateGE(NewDate(Get(req.earliestISO)), NewDate(Get(req.latestISO)))
    THEN Err("Earliest time must be before latest time")
    ELSE NoError

\* the checks in the order of the code; the first one that throws wins
ValidateMeetingRequest(req) ==
    IF CheckSubject(req) # NoError THEN CheckSubject(req)
    ELSE IF CheckAttendees(req) # NoError THEN CheckAttendees(req)
    ELSE IF CheckEmails(req) # NoError THEN CheckEmails(req)
    ELSE IF CheckDuration(req) # NoError THEN CheckDuration(req)
    ELSE CheckTimeRange(req)

\* slip: only the start is tested for NaN
ValidateTimeWindowStartOnly(slot) ==
    IF IsNaNTime(NewDate(slot.startISO))
    THEN Err("Invalid time slot format")
    ELSE IF DateGE(NewDate(slot.startISO), NewDate(slot.endISO))
    THEN Err("Meeting start time must be before end time")
    ELSE NoError

\* slip: the order of start and end is not tested
ValidateTimeWindowFormatOnly(slot) ==
    IF IsNaNTime(NewDate(slot.startISO)) \/ IsNaNTime(NewDate(slot.endISO))
    THEN Err("Invalid time slot format")
    ELSE NoError

ValidateTimeWindow(slot) ==
    IF IsNaNTime(NewDate(slot.startISO)) \/ IsNaNTime(NewDate(slot.endISO))
    THEN Err("Invalid time slot format")
    ELSE IF DateGE(NewDate(slot.startISO), NewDate(slot.endISO))
    THEN Err("Meeting start time must be before end time")
    ELSE NoError

\* slip: confirmSlot forgets to validate the chosen slot
ConfirmValidationRequestOnly(req, slot) == ValidateMeetingRequest(req)

\* confirmSlot: this.validateMeetingRequest(request); this.validateTimeWindow(chosenSlot)
ConfirmValidation(req, slot) ==
    IF ValidateMeetingRequest(req) # NoError
    THEN ValidateMeetingRequest(req)
    ELSE ValidateTimeWindow(slot)

(* ------------------ SchedulingService: enhancement --------------------- *)

\* slip: the default is written into the caller's object, which is then returned
EnhanceRequestInPlace(req) ==
    LET filled == [req EXCEPT !.durationMinutes =
                      IF IsPresent(req.durationMinutes) /\ Get(req.durationMinutes) # 0
                      THEN req.durationMinutes
                      ELSE Some(defaultDurationMinutes)]
    IN [caller |-> filled, enhanced |-> filled]

\* slip: `??` instead of `||`: only an absent duration takes the default
EnhanceRequestNullish(req) ==
    [caller |-> req,
     enhanced |->
        [req EXCEPT !.durationMinutes =
            IF IsPresent(req.durationMinutes)
            THEN req.durationMinutes
            ELSE Some(defaultDurationMinutes)]]

\* caller: the caller's object after the call; enhanced: the object returned
EnhanceRequest(req) ==
    [caller |-> req,
     enhanced |->
        [req EXCEPT !.durationMinutes =
            IF IsPresent(req.durationMinutes) /\ Get(req.durationMinutes) # 0
            THEN req.durationMinutes
            ELSE Some(defaultDurationMinutes)]]

(* --------------------------- outcomes ---------------------------------- *)

NoOutcome == [status |-> "none", error |-> NoError, value |-> <<>>]

Rejected(e) == [status |-> "rejected", error |-> e, value |-> <<>>]

Resolved(v) == [status |-> "resolved", error |-> NoError, value |-> v]

(* ------------------------------ engines -------------------------------- *)

\* slip: any non-empty value of the variable switches to Sidekick
CreateEngineTruthy(env) ==
    IF IsPresent(env) /\ Get(env) # "" THEN "SidekickEngine" ELSE "GoogleCalendarEngine"

CreateEngine(env) ==
    IF env = Some("true") THEN "SidekickEngine" ELSE "GoogleCalendarEngine"

Rec(source, level, message, meta) ==
    [source |-> source, level |-> level, message |-> message, meta |-> meta]

\* slip: a stub that returns sample proposals, lowest score first, one hour long
EngineProposeUnsorted(eng, req) ==
    [result |-> Resolved(<<[slot |-> [startISO |-> IsoString(1), endISO |-> IsoString(2)],
                            score |-> 10],
                           [slot |-> [startISO |-> IsoString(1), endISO |-> IsoString(2)],
                            score |-> 90]>>),
     log |-> <<>>]

\* slip: a stub that throws instead of returning no proposal
EngineProposeNotImplemented(eng, req) ==
    [result |-> Rejected(Err("Not implemented")), log |-> <<>>]

\* GoogleCalendarEngine.propose / SidekickEngine.propose
EnginePropose(eng, req) ==
    [result |-> Resolved(<<>>),
     log |-> <<Rec(eng, "debug",
                   IF eng = "SidekickEngine" THEN "Proposing slots via Sidekick API"
                   ELSE "Proposing slots for meeting request",
                   [subject |-> req.subject, attendeeCount |-> Len(req.attendees),
                    duration |-> req.durationMinutes]),
               Rec(eng, "warn",
                   IF eng = "SidekickEngine"
                   THEN "Sidekick API integration not yet implemented - returning empty proposals"
                   ELSE "Google Calendar engine not yet implemented - returning empty proposals",
                   <<>>)>>]

\* GoogleCalendarEngine.book / SidekickEngine.book
\* slip: every book call creates a new event
EngineBookFresh(eng, req, slot) ==
    [result |-> Resolved([eventId |-> "evt-" \o ToString(Len(history))]),
     log |-> <<>>]

EngineBook(eng, req, slot) ==
    [result |-> Resolved([eventId |-> "TBD"]),
     log |-> <<Rec(eng, "debug",
                   IF eng = "SidekickEngine" THEN "Booking meeting via Sidekick API"
                   ELSE "Booking meeting slot",
                   [subject |-> req.subject, slot |-> slot,
                    attendeeCount |-> Len(req.attendees)]),
               Rec(eng, "warn",
                   IF eng = "SidekickEngine"
                   THEN "Sidekick booking not yet implemented - returning placeholder event ID"
                   ELSE "Google Calendar booking not yet implemented - returning placeholder event ID",
                   <<>>)>>]

\* Policies.scheduling as the module defines it
Policies == [defaultDurationMinutes |-> defaultDurationMinutes]

\* no caller besides the one of pc / op is present
NoConcurrentCallers ==
    /\ inFlight = <<>>
    /\ policy = Policies

\* new ContactMemory(): `contacts = new Map()`
NoCall == [method |-> "none", email |-> "", profile |-> <<>>, result |-> <<>>]

InitContactMemory ==
    /\ contacts = <<>>
    /\ expected = {}
    /\ lastCall = NoCall

\* what the callers of a new Application have observed: nothing
NoLifecycle ==
    [sequenceRuns |-> 0, shutdownCompleted |-> FALSE, initializedSince |-> FALSE,
     stale |-> {}, busyAtShutdownReturn |-> FALSE]

\* new Application(): both flags false
NewApplication ==
    /\ isInitialized = FALSE
    /\ isShuttingDown = FALSE
    /\ lifecycle = NoLifecycle

\* ... and nobody calls initialize() or shutdown()
NoApplicationCallers ==
    /\ NewApplication
    /\ settingsComplete = TRUE
    /\ tasks = <<>>

(* ------------------------------ Init ----------------------------------- *)

\* module load: `new SchedulingService()` resolves the engine from the
\* environment; no invocation has been made
Init ==
    /\ ENABLE_SIDEKICK \in EnvValues
    /\ engine = CreateEngine(ENABLE_SIDEKICK)
    /\ pc = "idle"
    /\ op = "none"
    /\ passedRequest = NoRequest
    /\ passedSlot = NoSlot
    /\ request = NoRequest
    /\ engineCalls = <<>>
    /\ pending = NoOutcome
    /\ outcome = NoOutcome
    /\ log = <<>>
    /\ processEnv = ENABLE_SIDEKICK
    /\ history = <<>>
    /\ NoConcurrentCallers
    /\ InitContactMemory
    /\ NoApplicationCallers

(* ----------------------------- actions --------------------------------- *)

\* slip: the engine is resolved from the environment at every call
ActiveEngineReResolved == CreateEngine(processEnv)

\* this.engine: the reference read at every dispatch and log call
ActiveEngine == engine

\* proposeSlots up to the await of engine.propose (or to the rejection), r
\* being what the engine answers to the call
ProposeSlotsWith(req, r) ==
    /\ pc = "idle"
    /\ op' = "proposeSlots"
    /\ passedRequest' = req
    /\ passedSlot' = NoSlot
    /\ LET entry == <<Rec("SchedulingService", "debug", "Proposing meeting slots",
                          [subject |-> req.subject, attendeeCount |-> Len(req.attendees),
                           engine |-> ActiveEngine])>>
           e == ValidateMeetingRequest(req)
           enh == EnhanceRequest(req)
       IN IF req.attendees = Undefined
          THEN \* request.attendees.length (line 45) throws while the arguments of
               \* logger.debug are evaluated, before the try block is entered
               /\ request' = req
               /\ engineCalls' = <<>>
               /\ pending' = NoOutcome
               /\ outcome' = Rejected(TypeError)
               /\ log' = <<>>
               /\ pc' = "settled"
          ELSE IF e # NoError
          THEN /\ request' = req
               /\ engineCalls' = <<>>
               /\ pending' = NoOutcome
               /\ outcome' = Rejected(e)
               /\ log' = entry \o <<Rec("SchedulingService", "error",
                                        "Failed to propose meeting slots", [error |-> e])>>
               /\ pc' = "settled"
          ELSE /\ request' = enh.caller
               /\ engineCalls' = <<[engine |-> ActiveEngine, method |-> "propose",
                                    request |-> enh.enhanced, slot |-> NoSlot,
                                    result |-> r.result]>>
               /\ pending' = r.result
               /\ outcome' = NoOutcome
               /\ log' = entry \o r.log
               /\ pc' = "awaitPropose"
    /\ UNCHANGED <<ENABLE_SIDEKICK, engine, processEnv, history,
                   concurrencyVars, memoryVars, applicationVars>>

\* proposeSlots dispatching to the engine the constructor selected
ProposeSlots(req) ==
    ProposeSlotsWith(req, EnginePropose(ActiveEngine, EnhanceRequest(req).enhanced))

\* slip: catch returns an empty list instead of rethrowing
AfterAwaitProposeSwallow(p) ==
    IF p.status = "rejected" THEN Resolved(<<>>) ELSE Resolved(p.value)

\* `return proposals` (line 64) after a fulfilled await, `throw error` (line 67)
\* after a rejected one
AfterAwaitPropose(p) ==
    IF p.status = "rejected" THEN Rejected(p.error) ELSE Resolved(p.value)

\* the continuation of proposeSlots after `await this.engine.propose(..)`
ResumePropose ==
    /\ pc = "awaitPropose"
    /\ log' = Append(log,
                  IF pending.status = "rejected"
                  THEN Rec("SchedulingService", "error", "Failed to propose meeting slots",
                           [error |-> pending.error])
                  ELSE Rec("SchedulingService", "debug", "Generated meeting proposals",
                           [proposalCount |-> Len(pending.value),
                            engine |-> ActiveEngine]))
    /\ outcome' = AfterAwaitPropose(pending)
    /\ pending' = NoOutcome
    /\ pc' = "settled"
    /\ UNCHANGED <<ENABLE_SIDEKICK, engine, op, passedRequest, passedSlot, request,
                   engineCalls, processEnv, history,
                   concurrencyVars, memoryVars, applicationVars>>

\* confirmSlot up to the await of engine.book (or to the rejection), r being
\* what the engine answers to the call
ConfirmSlotWith(req, slot, r) ==
    /\ pc = "idle"
    /\ op' = "confirmSlot"
    /\ passedRequest' = req
    /\ passedSlot' = slot
    /\ LET entry == <<Rec("SchedulingService", "debug", "Confirming meeting slot",
                          [subject |-> req.subject, slot |-> slot,
                           engine |-> ActiveEngine])>>
           e == ConfirmValidation(req, slot)
           enh == EnhanceRequest(req)
       IN IF e # NoError
          THEN /\ request' = req
               /\ engineCalls' = <<>>
               /\ pending' = NoOutcome
               /\ outcome' = Rejected(e)
               /\ log' = entry \o <<Rec("SchedulingService", "error",
                                        "Failed to confirm meeting slot", [error |-> e])>>
               /\ pc' = "settled"
          ELSE /\ request' = enh.caller
               /\ engineCalls' = <<[engine |-> ActiveEngine, method |-> "book",
                                    request |-> enh.enhanced, slot |-> slot,
                                    result |-> r.result]>>
               /\ pending' = r.result
               /\ outcome' = NoOutcome
               /\ log' = entry \o r.log
               /\ pc' = "awaitBook"
    /\ UNCHANGED <<ENABLE_SIDEKICK, engine, processEnv, history,
                   concurrencyVars, memoryVars, applicationVars>>

\* confirmSlot dispatching to the engine the constructor selected
ConfirmSlot(req, slot) ==
    ConfirmSlotWith(req, slot,
                    EngineBook(ActiveEngine, EnhanceRequest(req).enhanced, slot))

\* slip: the coordinator builds its own BookingResult
AfterAwaitBookRederive(p) ==
    IF p.status = "rejected" THEN Rejected(p.error) ELSE Resolved([eventId |-> "TBD"])

\* `return result` (line 103) after a fulfilled await, `throw error` (line 106)
\* after a rejected one
AfterAwaitBook(p) ==
    IF p.status = "rejected" THEN Rejected(p.error) ELSE Resolved(p.value)

\* the continuation of confirmSlot after `await this.engine.book(..)`
ResumeConfirm ==
    /\ pc = "awaitBook"
    /\ log' = Append(log,
                  IF pending.status = "rejected"
                  THEN Rec("SchedulingService", "error", "Failed to confirm meeting slot",
                           [error |-> pending.error])
                  ELSE Rec("SchedulingService", "info", "Meeting successfully booked",
                           [eventId |-> pending.value.eventId,
                            subject |-> passedRequest.subject,
                            slot |-> passedSlot, engine |-> ActiveEngine]))
    /\ outcome' = AfterAwaitBook(pending)
    /\ pending' = NoOutcome
    /\ pc' = "settled"
    /\ UNCHANGED <<ENABLE_SIDEKICK, engine, op, passedRequest, passedSlot, request,
                   engineCalls, processEnv, history,
                   concurrencyVars, memoryVars, applicationVars>>

\* the caller has received the settled promise: the request, the slot and the
\* result are discarded after the call completes, the coordinator keeps nothing
ResetInvocation ==
    /\ pc = "settled"
    /\ pc' = "idle"
    /\ op' = "none"
    /\ passedRequest' = NoRequest
    /\ passedSlot' = NoSlot
    /\ request' = NoRequest
    /\ engineCalls' = <<>>
    /\ pending' = NoOutcome
    /\ outcome' = NoOutcome
    /\ log' = <<>>
    /\ UNCHANGED <<ENABLE_SIDEKICK, engine, processEnv,
                   concurrencyVars, memoryVars, applicationVars>>

\* ... and nothing of the invocation is remembered
Discard ==
    /\ ResetInvocation
    /\ UNCHANGED history

\* a caller invokes the exported proposeSlots with any request
CallProposeSlots ==
    /\ pc = "idle"
    /\ \E req \in MeetingRequest : ProposeSlots(req)

\* a caller invokes the exported confirmSlot with any request and slot
CallConfirmSlot ==
    /\ pc = "idle"
    /\ \E req \in MeetingRequest, slot \in TimeWindow : ConfirmSlot(req, slot)

Next ==
    \/ CallProposeSlots
    \/ ResumePropose
    \/ CallConfirmSlot
    \/ ResumeConfirm
    \/ Discard

Spec == Init /\ [][Next]_vars

(***************************************************************************)
(* The coordinator in front of any implementation of the SchedulingEngine  *)
(* interface: propose and book return promises that are fulfilled with a   *)
(* value of the declared type or rejected with an error.                   *)
(***************************************************************************)

\* longest proposal list an engine answers with
MaxProposals == 2

SampleAttendee == [email |-> <<"a", "@", "b">>]

\* a few requests, valid and invalid, with and without a duration
SampleRequests ==
    [subject : {<<>>, <<" ", "S">>},
     attendees : {<<SampleAttendee>>, <<SampleAttendee, SampleAttendee>>,
                  <<SampleAttendee, [email |-> <<"a">>]>>},
     durationMinutes : {None, Some(30)},
     earliestISO : {None},
     latestISO : {None},
     constraints : {None}]

Proposals ==
    [slot : {[startISO |-> IsoString(1), endISO |-> IsoString(2)]}, score : {40, 90}]

ProposalLists == UNION {[1..n -> Proposals] : n \in 0..MaxProposals}

BookingResults == [eventId : {"evt-1", "evt-2"}]

EngineErrors == {Err("EngineUnavailable"), Err("SlotConflict")}

\* what Promise<Proposal[]> settles to
ProposeAnswers ==
    {Resolved(l) : l \in ProposalLists} \cup {Rejected(e) : e \in EngineErrors}

\* what Promise<BookingResult> settles to
BookAnswers ==
    {Resolved(b) : b \in BookingResults} \cup {Rejected(e) : e \in EngineErrors}

InitAnyEngine ==
    /\ ENABLE_SIDEKICK = None
    /\ engine = "SchedulingEngine"
    /\ pc = "idle"
    /\ op = "none"
    /\ passedRequest = NoRequest
    /\ passedSlot = NoSlot
    /\ request = NoRequest
    /\ engineCalls = <<>>
    /\ pending = NoOutcome
    /\ outcome = NoOutcome
    /\ log = <<>>
    /\ processEnv = None
    /\ history = <<>>
    /\ NoConcurrentCallers
    /\ InitContactMemory
    /\ NoApplicationCallers

CallProposeSlotsAnyEngine ==
    /\ pc = "idle"
    /\ \E req \in SampleRequests, a \in ProposeAnswers :
          ProposeSlotsWith(req, [result |-> a, log |-> <<>>])

CallConfirmSlotAnyEngine ==
    /\ pc = "idle"
    /\ \E req \in SampleRequests, slot \in TimeWindow, a \in BookAnswers :
          ConfirmSlotWith(req, slot, [result |-> a, log |-> <<>>])

NextAnyEngine ==
    \/ CallProposeSlotsAnyEngine
    \/ ResumePropose
    \/ CallConfirmSlotAnyEngine
    \/ ResumeConfirm
    \/ Discard

SpecAnyEngine == InitAnyEngine /\ [][NextAnyEngine]_vars

(***************************************************************************)
(* Engine selection: the coordinator is constructed under any value of     *)
(* ENABLE_SIDEKICK, and the variable is changed while the coordinator      *)
(* lives.                                                                  *)
(***************************************************************************)

EnvSignals ==
    {None, Some("true"), Some("false"), Some("TRUE"), Some("1"), Some("")}

InitSelection ==
    /\ ENABLE_SIDEKICK \in EnvSignals
    /\ engine = CreateEngine(ENABLE_SIDEKICK)
    /\ pc = "idle"
    /\ op = "none"
    /\ passedRequest = NoRequest
    /\ passedSlot = NoSlot
    /\ request = NoRequest
    /\ engineCalls = <<>>
    /\ pending = NoOutcome
    /\ outcome = NoOutcome
    /\ log = <<>>
    /\ processEnv = ENABLE_SIDEKICK
    /\ history = <<>>
    /\ NoConcurrentCallers
    /\ InitContactMemory
    /\ NoApplicationCallers

\* process.env.ENABLE_SIDEKICK = v, or delete process.env.ENABLE_SIDEKICK
SetEnableSidekick(v) ==
    /\ v # processEnv
    /\ processEnv' = v
    /\ UNCHANGED <<ENABLE_SIDEKICK, engine, pc, op, passedRequest, passedSlot,
                   request, engineCalls, pending, outcome, log, history,
                   concurrencyVars, memoryVars, applicationVars>>

ChangeEnvironment == \E v \in EnvSignals : SetEnableSidekick(v)

CallProposeSlotsSample ==
    /\ pc = "idle"
    /\ \E req \in SampleRequests : ProposeSlots(req)

CallConfirmSlotSample ==
    /\ pc = "idle"
    /\ \E req \in SampleRequests, slot \in TimeWindow : ConfirmSlot(req, slot)

NextSelection ==
    \/ ChangeEnvironment
    \/ CallProposeSlotsSample
    \/ ResumePropose
    \/ CallConfirmSlotSample
    \/ ResumeConfirm
    \/ Discard

SpecSelection == InitSelection /\ [][NextSelection]_vars

(***************************************************************************)
(* Successive bookings: the callers keep the bookings confirmSlot resolved *)
(* with, and confirm further slots with the same coordinator.              *)
(***************************************************************************)

MaxHistory == 2

OtherAttendee == [email |-> <<"b", "@", "c">>]

\* valid requests that differ in subject or attendees and share an attendee
BookingRequests ==
    { [subject |-> s, attendees |-> a, durationMinutes |-> None,
       earliestISO |-> None, latestISO |-> None, constraints |-> None] :
      s \in {<<"S">>, <<"T">>},
      a \in {<<SampleAttendee>>, <<SampleAttendee, OtherAttendee>>} }

InitBooking ==
    /\ ENABLE_SIDEKICK \in EnvValues
    /\ engine = CreateEngine(ENABLE_SIDEKICK)
    /\ pc = "idle"
    /\ op = "none"
    /\ passedRequest = NoRequest
    /\ passedSlot = NoSlot
    /\ request = NoRequest
    /\ engineCalls = <<>>
    /\ pending = NoOutcome
    /\ outcome = NoOutcome
    /\ log = <<>>
    /\ processEnv = ENABLE_SIDEKICK
    /\ history = <<>>
    /\ NoConcurrentCallers
    /\ InitContactMemory
    /\ NoApplicationCallers

CallConfirmSlotBooking ==
    /\ pc = "idle"
    /\ \E req \in BookingRequests, slot \in TimeWindow : ConfirmSlot(req, slot)

\* the caller receives a BookingResult and keeps it with what it confirmed
KeepBooking ==
    /\ op = "confirmSlot"
    /\ outcome.status = "resolved"
    /\ Len(history) < MaxHistory
    /\ ResetInvocation
    /\ history' = Append(history, [request |-> passedRequest, slot |-> passedSlot,
                                    result |-> outcome.value])

NextBooking ==
    \/ CallConfirmSlotBooking
    \/ ResumeConfirm
    \/ KeepBooking
    \/ Discard

SpecBooking == InitBooking /\ [][NextBooking]_vars

(***************************************************************************)
(* Callers that are not held to the MeetingRequest type: the attendees     *)
(* property may be missing.  The caller keeps what proposeSlots answered   *)
(* and calls confirmSlot with requests it proposed for.                    *)
(***************************************************************************)

AnyCallerRequests ==
    { [subject |-> s, attendees |-> a, durationMinutes |-> d,
       earliestISO |-> None, latestISO |-> None, constraints |-> None] :
      s \in {<<>>, <<"S">>},
      a \in {Undefined, <<>>, <<SampleAttendee>>, <<[email |-> <<"a">>]>>},
      d \in {None, Some(-30)} }

CallProposeSlotsAnyCaller ==
    /\ pc = "idle"
    /\ \E req \in AnyCallerRequests : ProposeSlots(req)

CallConfirmSlotAnyCaller ==
    /\ pc = "idle"
    /\ \E req \in AnyCallerRequests, slot \in TimeWindow : ConfirmSlot(req, slot)

\* the caller receives the settled promise of proposeSlots and remembers how
\* it settled
KeepProposeOutcome ==
    /\ op = "proposeSlots"
    /\ Len(history) < MaxHistory
    /\ ResetInvocation
    /\ history' = Append(history, [op |-> op, request |-> passedRequest,
                                    outcome |-> outcome])

NextAnyCaller ==
    \/ CallProposeSlotsAnyCaller
    \/ ResumePropose
    \/ CallConfirmSlotAnyCaller
    \/ ResumeConfirm
    \/ KeepProposeOutcome
    \/ Discard

SpecAnyCaller == InitBooking /\ [][NextAnyCaller]_vars

(***************************************************************************)
(* Concurrent callers: each caller's invocation has its own frame (the     *)
(* locals of the async function); the frames share this.engine and         *)
(* Policies.  An invocation suspends only at its await of the engine.      *)
(***************************************************************************)

MaxInFlight == 2

IdleFrame ==
    [pc |-> "idle", op |-> "none", request |-> NoRequest, slot |-> NoSlot,
     delivered |-> NoRequest, answer |-> NoOutcome, outcome |-> NoOutcome]

\* the frame of a call that threw before reaching the engine
ThrownFrame(o, req, slot, e) ==
    [pc |-> "settled", op |-> o, request |-> req, slot |-> slot,
     delivered |-> NoRequest, answer |-> NoOutcome, outcome |-> Rejected(e)]

\* the frame of a call suspended at `await this.engine.propose / book`
SuspendedFrame(o, req, slot, ans) ==
    [pc |-> IF o = "proposeSlots" THEN "awaitPropose" ELSE "awaitBook",
     op |-> o, request |-> req, slot |-> slot,
     delivered |-> EnhanceRequest(req).enhanced, answer |-> ans,
     outcome |-> NoOutcome]

\* proposeSlots up to its await, the engine answering ans
ProposeFrame(req, ans) ==
    IF req.attendees = Undefined THEN ThrownFrame("proposeSlots", req, NoSlot, TypeError)
    ELSE IF ValidateMeetingRequest(req) # NoError
    THEN ThrownFrame("proposeSlots", req, NoSlot, ValidateMeetingRequest(req))
    ELSE SuspendedFrame("proposeSlots", req, NoSlot, ans)

\* confirmSlot up to its await, the engine answering ans
ConfirmFrame(req, slot, ans) ==
    IF ConfirmValidation(req, slot) # NoError
    THEN ThrownFrame("confirmSlot", req, slot, ConfirmValidation(req, slot))
    ELSE SuspendedFrame("confirmSlot", req, slot, ans)

\* the continuation after the await
ResumedFrame(f) ==
    [f EXCEPT !.pc = "settled",
              !.outcome = IF f.op = "proposeSlots" THEN AfterAwaitPropose(f.answer)
                          ELSE AfterAwaitBook(f.answer)]

\* slip: the caller's duration is stored as the new default
PoliciesOverwritten(pol, req) ==
    IF IsPresent(req.durationMinutes)
    THEN [pol EXCEPT !.defaultDurationMinutes = Get(req.durationMinutes)]
    ELSE pol

\* Policies after an invocation has validated and enhanced req: enhanceRequest
\* reads Policies.scheduling.defaultDurationMinutes and writes a new object
PoliciesAfter(pol, req) == pol

ConcurrentRequests ==
    { [subject |-> s, attendees |-> <<SampleAttendee>>, durationMinutes |-> d,
       earliestISO |-> None, latestISO |-> None, constraints |-> None] :
      s \in {<<>>, <<"S">>}, d \in {None, Some(30)} }

ConcurrentSlots ==
    {[startISO |-> IsoString(1), endISO |-> IsoString(MaxTime)],
     [startISO |-> IsoString(MaxTime), endISO |-> IsoString(1)]}

InitConcurrent ==
    /\ ENABLE_SIDEKICK \in EnvValues
    /\ engine = CreateEngine(ENABLE_SIDEKICK)
    /\ pc = "idle"
    /\ op = "none"
    /\ passedRequest = NoRequest
    /\ passedSlot = NoSlot
    /\ request = NoRequest
    /\ engineCalls = <<>>
    /\ pending = NoOutcome
    /\ outcome = NoOutcome
    /\ log = <<>>
    /\ processEnv = ENABLE_SIDEKICK
    /\ history = <<>>
    /\ inFlight = [k \in 1..MaxInFlight |-> IdleFrame]
    /\ policy = Policies
    /\ InitContactMemory
    /\ NoApplicationCallers

StartProposeSlots(k) ==
    /\ inFlight[k].pc = "idle"
    /\ \E req \in ConcurrentRequests,
          ans \in {Resolved(<<>>), Rejected(Err("EngineUnavailable"))} :
          /\ inFlight' = [inFlight EXCEPT ![k] = ProposeFrame(req, ans)]
          /\ policy' = PoliciesAfter(policy, req)
    /\ UNCHANGED <<schedulingVars, memoryVars, applicationVars>>

StartConfirmSlot(k) ==
    /\ inFlight[k].pc = "idle"
    /\ \E req \in ConcurrentRequests, slot \in ConcurrentSlots,
          ans \in {Resolved([eventId |-> "evt-1"]), Rejected(Err("SlotConflict"))} :
          /\ inFlight' = [inFlight EXCEPT ![k] = ConfirmFrame(req, slot, ans)]
          /\ policy' = PoliciesAfter(policy, req)
    /\ UNCHANGED <<schedulingVars, memoryVars, applicationVars>>

ResumeInFlight(k) ==
    /\ inFlight[k].pc \in {"awaitPropose", "awaitBook"}
    /\ inFlight' = [inFlight EXCEPT ![k] = ResumedFrame(inFlight[k])]
    /\ UNCHANGED <<schedulingVars, policy, memoryVars, applicationVars>>

\* the caller receives the settled promise; its frame is gone
ReceiveInFlight(k) ==
    /\ inFlight[k].pc = "settled"
    /\ inFlight' = [inFlight EXCEPT ![k] = IdleFrame]
    /\ UNCHANGED <<schedulingVars, policy, memoryVars, applicationVars>>

NextConcurrent ==
    \E k \in 1..MaxInFlight :
        \/ StartProposeSlots(k)
        \/ StartConfirmSlot(k)
        \/ ResumeInFlight(k)
        \/ ReceiveInFlight(k)

SpecConcurrent == InitConcurrent /\ [][NextConcurrent]_vars

(***************************************************************************)
(* ContactMemory: a JavaScript Map from email to ContactProfile.  The Map  *)
(* is the sequence of its entries in insertion order, which is the order   *)
(* of values().                                                            *)
(***************************************************************************)

MaxContacts == 2

ContactEmails == {"c" \o ToString(i) \o "@example.com" : i \in 1..MaxContacts}

\* profiles; nothing ties a profile's own email to the key it is stored under
ContactProfiles == [email : ContactEmails, name : {"Test User", "Another User"}]

\* Map.prototype.has
MapHas(m, k) == \E i \in 1..Len(m) : m[i].key = k

\* position of the entry of key k
MapIndex(m, k) == CHOOSE i \in 1..Len(m) : m[i].key = k

\* Map.prototype.get: the value, or undefined
MapGet(m, k) == IF MapHas(m, k) THEN Some(m[MapIndex(m, k)].value) ELSE None

\* slip: set always adds an entry
MapSetAppend(m, k, v) == Append(m, [key |-> k, value |-> v])

\* Map.prototype.set: an existing key keeps its position and takes the value
MapSet(m, k, v) ==
    IF MapHas(m, k)
    THEN [m EXCEPT ![MapIndex(m, k)].value = v]
    ELSE Append(m, [key |-> k, value |-> v])

\* Map.prototype.delete: the remaining entries, in order
MapDelete(m, k) == SelectSeq(m, LAMBDA en : en.key # k)

\* Array.from(map.values())
MapValues(m) == [i \in 1..Len(m) |-> m[i].value]

\* get(email)
ContactGet(email) ==
    /\ UNCHANGED <<schedulingVars, concurrencyVars, applicationVars>>
    /\ lastCall' = [method |-> "get", email |-> email, profile |-> <<>>,
                    result |-> MapGet(contacts, email)]
    /\ UNCHANGED <<contacts, expected>>

\* set(email, profile)
ContactSet(email, profile) ==
    /\ UNCHANGED <<schedulingVars, concurrencyVars, applicationVars>>
    /\ contacts' = MapSet(contacts, email, profile)
    /\ expected' = {pr \in expected : pr[1] # email} \cup {<<email, profile>>}
    /\ lastCall' = [method |-> "set", email |-> email, profile |-> <<profile>>,
                    result |-> <<>>]

\* has(email)
ContactHas(email) ==
    /\ UNCHANGED <<schedulingVars, concurrencyVars, applicationVars>>
    /\ lastCall' = [method |-> "has", email |-> email, profile |-> <<>>,
                    result |-> MapHas(contacts, email)]
    /\ UNCHANGED <<contacts, expected>>

\* delete(email): true when an entry was removed
ContactDelete(email) ==
    /\ UNCHANGED <<schedulingVars, concurrencyVars, applicationVars>>
    /\ contacts' = MapDelete(contacts, email)
    /\ expected' = {pr \in expected : pr[1] # email}
    /\ lastCall' = [method |-> "delete", email |-> email,
                    profile |-> IF \E pr \in expected : pr[1] = email
                                THEN <<"present">> ELSE <<>>,
                    result |-> MapHas(contacts, email)]

\* getAll()
ContactGetAll ==
    /\ UNCHANGED <<schedulingVars, concurrencyVars, applicationVars>>
    /\ lastCall' = [method |-> "getAll", email |-> "", profile |-> <<>>,
                    result |-> MapValues(contacts)]
    /\ UNCHANGED <<contacts, expected>>

\* clear()
ContactClear ==
    /\ UNCHANGED <<schedulingVars, concurrencyVars, applicationVars>>
    /\ contacts' = <<>>
    /\ expected' = {}
    /\ lastCall' = [method |-> "clear", email |-> "", profile |-> <<>>, result |-> <<>>]

NextMemory ==
    \/ \E e \in ContactEmails : ContactGet(e)
    \/ \E e \in ContactEmails, pf \in ContactProfiles : ContactSet(e, pf)
    \/ \E e \in ContactEmails : ContactHas(e)
    \/ \E e \in ContactEmails : ContactDelete(e)
    \/ ContactGetAll
    \/ ContactClear

SpecMemory == Init /\ [][NextMemory]_vars

(***************************************************************************)
(* Application: initialize() and shutdown() are async functions; a call    *)
(* runs to its next await in one step and resumes in a later one, so calls *)
(* made while another is suspended interleave with it.  Each caller makes  *)
(* one call.                                                               *)
(***************************************************************************)

MaxTasks == 3

NoTask == [kind |-> "none", pc |-> "idle", result |-> "none"]

\* isReady()
IsReady == isInitialized /\ ~isShuttingDown

InitApplication ==
    /\ ENABLE_SIDEKICK \in {None}
    /\ engine = CreateEngine(ENABLE_SIDEKICK)
    /\ pc = "idle"
    /\ op = "none"
    /\ passedRequest = NoRequest
    /\ passedSlot = NoSlot
    /\ request = NoRequest
    /\ engineCalls = <<>>
    /\ pending = NoOutcome
    /\ outcome = NoOutcome
    /\ log = <<>>
    /\ processEnv = ENABLE_SIDEKICK
    /\ history = <<>>
    /\ NoConcurrentCallers
    /\ InitContactMemory
    /\ NewApplication
    /\ settingsComplete \in BOOLEAN
    /\ tasks = [k \in 1..MaxTasks |-> NoTask]

\* the initialize() calls suspended at one of their awaits
InitializeInFlight ==
    {k \in DOMAIN tasks : tasks[k].kind = "initialize" /\ tasks[k].pc # "done"}

\* initialize() up to `await this.validateConfiguration()`, or its early return
InitializeCall(k) ==
    /\ tasks[k].kind = "none"
    /\ IF isInitialized
       THEN /\ tasks' = [tasks EXCEPT ![k] = [kind |-> "initialize", pc |-> "done",
                                               result |-> "resolved"]]
            /\ lifecycle' = [lifecycle EXCEPT !.initializedSince = TRUE]
       ELSE /\ tasks' = [tasks EXCEPT ![k] = [kind |-> "initialize",
                                               pc |-> "awaitValidate",
                                               result |-> "none"]]
            /\ lifecycle' = [lifecycle EXCEPT !.sequenceRuns = @ + 1]
    /\ UNCHANGED <<isInitialized, isShuttingDown, settingsComplete>>
    /\ UNCHANGED <<schedulingVars, concurrencyVars, memoryVars>>

\* validateConfiguration() threw: catch, log, rethrow; otherwise on to
\* `await this.initializeServices()`
AfterValidateConfiguration(k) ==
    /\ tasks[k].kind = "initialize"
    /\ tasks[k].pc = "awaitValidate"
    /\ tasks' = [tasks EXCEPT ![k] =
                    IF settingsComplete
                    THEN [@ EXCEPT !.pc = "awaitServices"]
                    ELSE [@ EXCEPT !.pc = "done", !.result = "rejected"]]
    /\ UNCHANGED <<isInitialized, isShuttingDown, settingsComplete, lifecycle>>
    /\ UNCHANGED <<schedulingVars, concurrencyVars, memoryVars>>

\* on to `await this.performHealthChecks()`
AfterInitializeServices(k) ==
    /\ tasks[k].kind = "initialize"
    /\ tasks[k].pc = "awaitServices"
    /\ tasks' = [tasks EXCEPT ![k].pc = "awaitHealth"]
    /\ UNCHANGED <<isInitialized, isShuttingDown, settingsComplete, lifecycle>>
    /\ UNCHANGED <<schedulingVars, concurrencyVars, memoryVars>>

\* this.isInitialized = true (line 46), and the call returns
AfterPerformHealthChecks(k) ==
    /\ tasks[k].kind = "initialize"
    /\ tasks[k].pc = "awaitHealth"
    /\ isInitialized' = TRUE
    /\ tasks' = [tasks EXCEPT ![k] = [@ EXCEPT !.pc = "done", !.result = "resolved"]]
    /\ lifecycle' = [lifecycle EXCEPT !.initializedSince = @ \/ k \notin lifecycle.stale]
    /\ UNCHANGED <<isShuttingDown, settingsComplete>>
    /\ UNCHANGED <<schedulingVars, concurrencyVars, memoryVars>>

\* shutdown() up to `await this.cleanupServices()`, or its early return
ShutdownCall(k) ==
    /\ tasks[k].kind = "none"
    /\ IF isShuttingDown
       THEN /\ tasks' = [tasks EXCEPT ![k] = [kind |-> "shutdown", pc |-> "done",
                                               result |-> "resolved"]]
            /\ lifecycle' = [lifecycle EXCEPT !.busyAtShutdownReturn = TRUE]
            /\ UNCHANGED isShuttingDown
       ELSE /\ tasks' = [tasks EXCEPT ![k] = [kind |-> "shutdown",
                                               pc |-> "awaitCleanup",
                                               result |-> "none"]]
            /\ isShuttingDown' = TRUE
            /\ UNCHANGED lifecycle
    /\ UNCHANGED <<isInitialized, settingsComplete>>
    /\ UNCHANGED <<schedulingVars, concurrencyVars, memoryVars>>

\* this.isInitialized = false (line 74), finally this.isShuttingDown = false
AfterCleanupServices(k) ==
    /\ tasks[k].kind = "shutdown"
    /\ tasks[k].pc = "awaitCleanup"
    /\ isInitialized' = FALSE
    /\ isShuttingDown' = FALSE
    /\ tasks' = [tasks EXCEPT ![k] = [@ EXCEPT !.pc = "done", !.result = "resolved"]]
    /\ lifecycle' = [lifecycle EXCEPT !.sequenceRuns = 0,
                                      !.shutdownCompleted = TRUE,
                                      !.initializedSince = FALSE,
                                      !.stale = InitializeInFlight]
    /\ UNCHANGED settingsComplete
    /\ UNCHANGED <<schedulingVars, concurrencyVars, memoryVars>>

NextApplication ==
    \E k \in 1..MaxTasks :
        \/ InitializeCall(k)
        \/ AfterValidateConfiguration(k)
        \/ AfterInitializeServices(k)
        \/ AfterPerformHealthChecks(k)
        \/ ShutdownCall(k)
        \/ AfterCleanupServices(k)

SpecApplication == InitApplication /\ [][NextApplication]_vars

(***************************************************************************)
(* Properties                                                              *)
(***************************************************************************)

\* what the claims say about a request, stated on the request's fields
IsBlank(s) == \A i \in 1..Len(s) : s[i] = " "

LacksAt(e) == \A i \in 1..Len(e) : e[i] # "@"

HasInvalidEmail(req) == \E i \in 1..Len(req.attendees) : LacksAt(req.attendees[i].email)

NonPositiveDuration(req) ==
    IsPresent(req.durationMinutes) /\ Get(req.durationMinutes) <= 0

InvertedRange(req) ==
    \E t1, t2 \in Times :
        /\ req.earliestISO = Some(IsoString(t1))
        /\ req.latestISO = Some(IsoString(t2))
        /\ t1 >= t2

Invoked == op # "none"

RejectedWith(msg) == outcome.status = "rejected" /\ outcome.error.message = msg

\* C1: whenever request validation fails, or confirmSlot's slot validation
\* fails, the operation is rejected and the engine's propose/book has been
\* invoked zero times during that invocation.
C1_FailFastNoEngineCall ==
    (/\ Invoked
     /\ \/ ValidateMeetingRequest(passedRequest) # NoError
        \/ op = "confirmSlot" /\ ValidateTimeWindow(passedSlot) # NoError)
    => (pc = "settled" /\ outcome.status = "rejected" /\ engineCalls = <<>>)

C1_Witness ==
    /\ op = "confirmSlot"
    /\ ValidateMeetingRequest(passedRequest) = NoError
    /\ ValidateTimeWindow(passedSlot) # NoError
    /\ pc = "settled"
    /\ outcome.status = "rejected"
    /\ engineCalls = <<>>

\* C2: a request whose subject is empty or only whitespace is rejected by both
\* operations with the subject-required error, whatever its other fields (and
\* the slot) are.
C2_BlankSubjectRejected ==
    (Invoked /\ IsBlank(passedRequest.subject))
    => RejectedWith("Meeting subject is required")

C2_Witness ==
    /\ op = "confirmSlot"
    /\ passedRequest.subject = <<" ">>
    /\ passedRequest.attendees = <<>>
    /\ NonPositiveDuration(passedRequest)
    /\ passedSlot.startISO = "invalid-date"
    /\ RejectedWith("Meeting subject is required")

\* C3: a request with a non-blank subject and no attendee is rejected by both
\* operations with the attendee-required error.
C3_NoAttendeeRejected ==
    (Invoked /\ ~IsBlank(passedRequest.subject) /\ passedRequest.attendees = <<>>)
    => RejectedWith("At least one attendee is required")

C3_Witness ==
    /\ op = "proposeSlots"
    /\ ~IsBlank(passedRequest.subject)
    /\ passedRequest.attendees = <<>>
    /\ InvertedRange(passedRequest)
    /\ RejectedWith("At least one attendee is required")

\* C4: with a non-blank subject and a non-empty attendee list holding an email
\* that is empty or lacks '@', both operations are rejected with the
\* invalid-email error naming the email of the first such attendee.
C4_FirstInvalidEmailNamed ==
    (/\ Invoked
     /\ ~IsBlank(passedRequest.subject)
     /\ passedRequest.attendees # <<>>
     /\ HasInvalidEmail(passedRequest))
    => /\ RejectedWith("Invalid email address for attendee: ")
       /\ \E i \in 1..Len(passedRequest.attendees) :
             /\ LacksAt(passedRequest.attendees[i].email)
             /\ \A j \in 1..(i - 1) : ~LacksAt(passedRequest.attendees[j].email)
             /\ outcome.error.arg = passedRequest.attendees[i].email

C4_Witness ==
    /\ op = "confirmSlot"
    /\ ~IsBlank(passedRequest.subject)
    /\ Len(passedRequest.attendees) = 2
    /\ passedRequest.attendees[1].email = <<"a">>
    /\ passedRequest.attendees[2].email = <<>>
    /\ RejectedWith("Invalid email address for attendee: ")
    /\ outcome.error.arg = <<"a">>

\* passes the subject, attendee and email checks as the claims state them
PassesFirstThree(req) ==
    ~IsBlank(req.subject) /\ req.attendees # <<>> /\ ~HasInvalidEmail(req)

\* C5: a request passing the subject, attendee and email checks whose
\* durationMinutes is present and <= 0 (0 included) is rejected with the
\* duration-must-be-positive error and the engine is not invoked.
C5_NonPositiveDurationRejected ==
    (/\ pc = "settled"
     /\ PassesFirstThree(passedRequest)
     /\ NonPositiveDuration(passedRequest))
    => (RejectedWith("Meeting duration must be positive") /\ engineCalls = <<>>)

\* C6: a request passing the earlier checks in which earliest and latest are
\* both present and earliest >= latest (equality included) is rejected by both
\* operations with the earliest-must-precede-latest error.
C6_InvertedRangeRejected ==
    (/\ Invoked
     /\ PassesFirstThree(passedRequest)
     /\ ~NonPositiveDuration(passedRequest)
     /\ InvertedRange(passedRequest))
    => RejectedWith("Earliest time must be before latest time")

C6_Witness ==
    /\ op = "confirmSlot"
    /\ PassesFirstThree(passedRequest)
    /\ passedRequest.durationMinutes = Some(30)
    /\ passedRequest.earliestISO = passedRequest.latestISO
    /\ InvertedRange(passedRequest)
    /\ RejectedWith("Earliest time must be before latest time")

\* the error of the earliest violated check, in the order subject, attendees,
\* email, duration, earliest/latest (the empty string: no check is violated)
EarliestViolation(req) ==
    IF IsBlank(req.subject) THEN "Meeting subject is required"
    ELSE IF req.attendees = <<>> THEN "At least one attendee is required"
    ELSE IF HasInvalidEmail(req) THEN "Invalid email address for attendee: "
    ELSE IF NonPositiveDuration(req) THEN "Meeting duration must be positive"
    ELSE IF InvertedRange(req) THEN "Earliest time must be before latest time"
    ELSE ""

ViolationCount(req) ==
    Cardinality({k \in 1..5 :
        \/ k = 1 /\ IsBlank(req.subject)
        \/ k = 2 /\ req.attendees = <<>>
        \/ k = 3 /\ HasInvalidEmail(req)
        \/ k = 4 /\ NonPositiveDuration(req)
        \/ k = 5 /\ InvertedRange(req)})

\* C7: for a request violating several checks at once, exactly the error of the
\* earliest violated check (subject, attendees, email, duration, earliest/latest)
\* is raised.
C7_EarliestViolationReported ==
    (pc = "settled" /\ ViolationCount(passedRequest) >= 2)
    => RejectedWith(EarliestViolation(passedRequest))

\* '@' is there, but nothing before it or nothing after it
EmptyLocalOrDomain(e) ==
    /\ ~LacksAt(e)
    /\ e[1] = "@" \/ e[Len(e)] = "@"

\* C8: a request (non-blank subject) with an attendee whose email contains '@'
\* but has an empty local part or an empty domain is rejected by both operations
\* with the invalid-email error.
C8_AddressShapeRejected ==
    (/\ pc = "settled"
     /\ ~IsBlank(passedRequest.subject)
     /\ \E i \in 1..Len(passedRequest.attendees) :
           EmptyLocalOrDomain(passedRequest.attendees[i].email))
    => RejectedWith("Invalid email address for attendee: ")

\* C9: the request delivered to the engine has the caller's durationMinutes when
\* the caller supplied one, and Policy.defaultDurationMinutes when it supplied
\* none.
C9_DeliveredDuration ==
    \A i \in 1..Len(engineCalls) :
        engineCalls[i].request.durationMinutes =
            IF IsPresent(passedRequest.durationMinutes)
            THEN passedRequest.durationMinutes
            ELSE Some(defaultDurationMinutes)

\* C10: the caller's request is, during and after the operation, the value that
\* was passed in, and the request delivered to the engine equals it in every
\* field other than durationMinutes.
C10_EnhancementLeavesCallerRequest ==
    Invoked =>
        /\ request = passedRequest
        /\ \A i \in 1..Len(engineCalls) :
              /\ engineCalls[i].request.subject = passedRequest.subject
              /\ engineCalls[i].request.attendees = passedRequest.attendees
              /\ engineCalls[i].request.earliestISO = passedRequest.earliestISO
              /\ engineCalls[i].request.latestISO = passedRequest.latestISO
              /\ engineCalls[i].request.constraints = passedRequest.constraints
              /\ DOMAIN engineCalls[i].request = DOMAIN passedRequest

C10_Witness ==
    /\ op = "proposeSlots"
    /\ pc = "settled"
    /\ outcome.status = "resolved"
    /\ passedRequest.durationMinutes = None
    /\ request.durationMinutes = None
    /\ Len(passedRequest.attendees) = 2
    /\ IsPresent(passedRequest.constraints)
    /\ IsPresent(passedRequest.earliestISO)
    /\ Len(engineCalls) = 1
    /\ engineCalls[1].request.durationMinutes = Some(defaultDurationMinutes)

\* the string denotes no instant
Unparseable(iso) == \A t \in Times : iso # IsoString(t)

\* C11: for a valid request and a slot whose start or end (or both) does not
\* parse as a timestamp, confirmSlot is rejected with the invalid-time-slot-format
\* error and engine.book is not invoked.
C11_UnparseableSlotRejected ==
    (/\ op = "confirmSlot"
     /\ ValidateMeetingRequest(passedRequest) = NoError
     /\ Unparseable(passedSlot.startISO) \/ Unparseable(passedSlot.endISO))
    => (RejectedWith("Invalid time slot format") /\ engineCalls = <<>>)

C11_Witness ==
    /\ op = "confirmSlot"
    /\ ValidateMeetingRequest(passedRequest) = NoError
    /\ ~Unparseable(passedSlot.startISO)
    /\ passedSlot.endISO = "invalid-date"
    /\ pc = "settled"
    /\ RejectedWith("Invalid time slot format")
    /\ engineCalls = <<>>

\* C12: for a valid request and a slot whose start and end both parse with
\* start >= end (equality included), confirmSlot is rejected with the
\* start-must-precede-end error and engine.book is not invoked.
C12_InvertedSlotRejected ==
    (/\ op = "confirmSlot"
     /\ ValidateMeetingRequest(passedRequest) = NoError
     /\ \E t1, t2 \in Times :
           /\ passedSlot.startISO = IsoString(t1)
           /\ passedSlot.endISO = IsoString(t2)
           /\ t1 >= t2)
    => (RejectedWith("Meeting start time must be before end time") /\ engineCalls = <<>>)

C12_Witness ==
    /\ op = "confirmSlot"
    /\ ValidateMeetingRequest(passedRequest) = NoError
    /\ ~Unparseable(passedSlot.startISO)
    /\ passedSlot.startISO = passedSlot.endISO
    /\ pc = "settled"
    /\ RejectedWith("Meeting start time must be before end time")
    /\ engineCalls = <<>>

\* length of a slot in minutes (the instants are hours)
SlotMinutes(slot) == (NewDate(slot.endISO).time - NewDate(slot.startISO).time) * 60

\* C19: with a shipped engine, every proposal sequence proposeSlots returns has
\* scores non-increasing by position and slots as long as the enhanced
\* request's durationMinutes.
C19_ProposalsSortedAndSized ==
    (op = "proposeSlots" /\ outcome.status = "resolved")
    => /\ \A i \in 1..(Len(outcome.value) - 1) :
             outcome.value[i].score >= outcome.value[i + 1].score
       /\ \A i \in 1..Len(outcome.value) :
             SlotMinutes(outcome.value[i].slot)
                = Get(engineCalls[1].request.durationMinutes)

C19_Witness ==
    /\ op = "proposeSlots"
    /\ pc = "settled"
    /\ outcome.status = "resolved"
    /\ Len(engineCalls) = 1
    /\ engineCalls[1].method = "propose"
    /\ engineCalls[1].request.durationMinutes = Some(30)
    /\ Len(outcome.value) = 0

\* C20: for every valid request and with the signal absent, "false" or "true",
\* proposeSlots is never rejected and settles with a sequence, the empty one.
C20_EmptyProposalsAreSuccess ==
    (op = "proposeSlots" /\ ValidateMeetingRequest(passedRequest) = NoError)
    => /\ outcome.status # "rejected"
       /\ pc = "settled" => (outcome.status = "resolved" /\ outcome.value = <<>>)

C20_Witness ==
    /\ ENABLE_SIDEKICK = Some("false")
    /\ engine = "GoogleCalendarEngine"
    /\ op = "proposeSlots"
    /\ EarliestViolation(passedRequest) = ""
    /\ pc = "settled"
    /\ outcome.status = "resolved"
    /\ outcome.value = <<>>

\* the invocation passed request validation and, for confirmSlot, slot validation
Validated ==
    /\ Invoked
    /\ ValidateMeetingRequest(passedRequest) = NoError
    /\ op = "confirmSlot" => ValidateTimeWindow(passedSlot) = NoError

\* C13: a validated invocation calls the engine exactly once (propose for
\* proposeSlots, book for confirmSlot); when that call is rejected the operation
\* is rejected with the very error of the engine, never resolved with an empty
\* list or a booking result, and no second engine call is made.
C13_EngineFailurePropagates ==
    Validated =>
        /\ Len(engineCalls) = 1
        /\ engineCalls[1].method = (IF op = "proposeSlots" THEN "propose" ELSE "book")
        /\ (pc = "settled" /\ engineCalls[1].result.status = "rejected")
              => (/\ outcome.status = "rejected"
                  /\ outcome.error = engineCalls[1].result.error)

C13_Witness ==
    /\ op = "proposeSlots"
    /\ Validated
    /\ pc = "settled"
    /\ Len(engineCalls) = 1
    /\ engineCalls[1].result = Rejected(Err("EngineUnavailable"))
    /\ outcome = Rejected(Err("EngineUnavailable"))

\* C14: when the engine call is fulfilled, confirmSlot resolves with exactly the
\* BookingResult of the engine (same eventId) and proposeSlots with exactly the
\* proposal sequence of the engine (same order, same length).
C14_EngineResultReturnedUnchanged ==
    (/\ pc = "settled"
     /\ Len(engineCalls) = 1
     /\ engineCalls[1].result.status = "resolved")
    => (/\ outcome.status = "resolved"
        /\ outcome.value = engineCalls[1].result.value)

C14_Witness ==
    /\ op = "confirmSlot"
    /\ pc = "settled"
    /\ Len(engineCalls) = 1
    /\ engineCalls[1].result = Resolved([eventId |-> "evt-2"])
    /\ outcome.status = "resolved"
    /\ outcome.value.eventId = "evt-2"

\* C15: the engine is resolved once, at construction: no step (a call, its
\* continuation, a change of ENABLE_SIDEKICK) changes the coordinator's engine,
\* and every engine call is dispatched to that engine.
C15_EngineResolvedOnce ==
    /\ [][engine' = engine]_vars
    /\ [](\A i \in 1..Len(engineCalls) : engineCalls[i].engine = engine)

C15_Witness ==
    /\ ENABLE_SIDEKICK = None
    /\ processEnv = Some("true")
    /\ engine = "GoogleCalendarEngine"
    /\ pc = "settled"
    /\ Len(engineCalls) = 1
    /\ engineCalls[1].engine = "GoogleCalendarEngine"

\* C16: the engine type is decided by the signal at construction alone: exactly
\* "true" selects SidekickEngine, every other value (absent, "false", "TRUE",
\* "1", empty) selects GoogleCalendarEngine.
C16_EngineTypeBySignal ==
    /\ ENABLE_SIDEKICK = Some("true") => engine = "SidekickEngine"
    /\ ENABLE_SIDEKICK \in {None, Some("false"), Some("TRUE"), Some("1"), Some("")}
          => engine = "GoogleCalendarEngine"
    /\ engine \in {"SidekickEngine", "GoogleCalendarEngine"}

C16_Witness ==
    /\ ENABLE_SIDEKICK = Some("TRUE")
    /\ engine = "GoogleCalendarEngine"
    /\ pc = "settled"
    /\ Len(engineCalls) = 1
    /\ engineCalls[1].engine = "GoogleCalendarEngine"

SlotConflict == Err("SlotConflict")

ConfirmSettled == pc = "settled" /\ op = "confirmSlot"

\* C17: confirmSlot called again with the (request, slot) of an earlier
\* successful call, with either shipped engine, resolves with the same eventId
\* or is rejected with a slot conflict: never a second, distinct booking.
C17_RepeatedConfirmSameEvent ==
    /\ ConfirmSettled =>
          \A i \in 1..Len(history) :
             (history[i].request = passedRequest /\ history[i].slot = passedSlot)
                => \/ outcome = Resolved(history[i].result)
                   \/ outcome = Rejected(SlotConflict)
    /\ \A i, j \in 1..Len(history) :
          (history[i].request = history[j].request /\ history[i].slot = history[j].slot)
             => history[i].result.eventId = history[j].result.eventId

C17_Witness ==
    /\ ConfirmSettled
    /\ Len(history) = 1
    /\ history[1].request = passedRequest
    /\ history[1].slot = passedSlot
    /\ engine = "SidekickEngine"
    /\ outcome = Resolved(history[1].result)

SharesAttendee(r1, r2) ==
    \E i \in 1..Len(r1.attendees), j \in 1..Len(r2.attendees) :
       r1.attendees[i].email = r2.attendees[j].email

\* the two windows are well-formed and have an instant in common
Overlaps(w1, w2) ==
    /\ ValidateTimeWindow(w1) = NoError
    /\ ValidateTimeWindow(w2) = NoError
    /\ NewDate(w1.startISO).time < NewDate(w2.endISO).time
    /\ NewDate(w2.startISO).time < NewDate(w1.endISO).time

\* C18: once confirmSlot has succeeded for a slot, a later confirmSlot for a
\* different request with a common attendee on the same or an overlapping slot
\* is rejected with a slot conflict, with either shipped engine.
C18_NoDoubleBooking ==
    ConfirmSettled =>
       \A i \in 1..Len(history) :
          (/\ history[i].request # passedRequest
           /\ SharesAttendee(history[i].request, passedRequest)
           /\ Overlaps(history[i].slot, passedSlot))
             => outcome = Rejected(SlotConflict)

\* the meta data of a log record names the subject, the attendee count and the
\* engine of the invocation, and carries no error
CarriesRequestContext(rec) ==
    /\ rec.source = "SchedulingService"
    /\ {"subject", "attendeeCount", "engine"} \subseteq DOMAIN rec.meta
    /\ "error" \notin DOMAIN rec.meta
    /\ rec.meta.subject = passedRequest.subject
    /\ rec.meta.attendeeCount = Len(passedRequest.attendees)
    /\ rec.meta.engine = engine

\* C23: when a proposeSlots or confirmSlot invocation has failed, a log record
\* carrying the subject, the attendee count and the engine identity, and not the
\* exception, has been emitted.
C23_FailureLoggedWithContext ==
    (pc = "settled" /\ outcome.status = "rejected")
    => \E i \in 1..Len(log) : CarriesRequestContext(log[i])

SlotErrors ==
    {"Invalid time slot format", "Meeting start time must be before end time"}

\* C25: in confirmSlot a request that violates a request check is rejected with
\* a request-validation error even when the slot is invalid too; a slot error is
\* raised only for a request that violates no request check.
C25_RequestCheckedBeforeSlot ==
    (ConfirmSettled /\ EarliestViolation(passedRequest) # "")
    => (outcome.status = "rejected" /\ outcome.error.message \notin SlotErrors)

\* C26: every request delivered to engine.propose or engine.book has a
\* durationMinutes that is present and strictly positive.
C26_DeliveredDurationPositive ==
    \A i \in 1..Len(engineCalls) :
        /\ IsPresent(engineCalls[i].request.durationMinutes)
        /\ Get(engineCalls[i].request.durationMinutes) > 0

C26_Witness ==
    /\ passedRequest.durationMinutes = Some(0)
    /\ Len(engineCalls) = 1
    /\ engineCalls[1].request.durationMinutes = Some(defaultDurationMinutes)

\* C27: in a request delivered to the engine a present earliest or latest is
\* parseable, and when both are present earliest is strictly before latest.
C27_DeliveredRangeWellFormed ==
    \A i \in 1..Len(engineCalls) :
        LET r == engineCalls[i].request
        IN /\ IsPresent(r.earliestISO) => ~Unparseable(Get(r.earliestISO))
           /\ IsPresent(r.latestISO) => ~Unparseable(Get(r.latestISO))
           /\ (IsPresent(r.earliestISO) /\ IsPresent(r.latestISO))
                 => \E t1, t2 \in Times :
                       /\ Get(r.earliestISO) = IsoString(t1)
                       /\ Get(r.latestISO) = IsoString(t2)
                       /\ t1 < t2

\* C28: two successful confirmSlot calls for different (request, slot) pairs
\* return different eventIds, with either shipped engine.
C28_EventIdUnique ==
    (ConfirmSettled /\ outcome.status = "resolved")
    => \A i \in 1..Len(history) :
          (history[i].request # passedRequest \/ history[i].slot # passedSlot)
             => history[i].result.eventId # outcome.value.eventId

RequestErrors ==
    {"Meeting subject is required", "At least one attendee is required",
     "Invalid email address for attendee: ", "Meeting duration must be positive",
     "Earliest time must be before latest time"}

FailedRequestValidation(o) ==
    o.status = "rejected" /\ o.error.message \in RequestErrors

WellFormedSlot(slot) ==
    \E t1, t2 \in Times :
        slot.startISO = IsoString(t1) /\ slot.endISO = IsoString(t2) /\ t1 < t2

\* C24: for every request, the attendee list absent included, proposeSlots
\* fails with a request-validation error E if and only if confirmSlot with that
\* request and a valid slot fails with the same error E.
C24_SameRequestValidation ==
    (ConfirmSettled /\ WellFormedSlot(passedSlot))
    => \A i \in 1..Len(history) :
          (/\ history[i].request = passedRequest
           /\ FailedRequestValidation(history[i].outcome) \/ FailedRequestValidation(outcome))
             => history[i].outcome = outcome

\* two invocations were called with the same arguments and given the same answer
SameCall(f, g) ==
    /\ f.op = g.op /\ f.op # "none"
    /\ f.request = g.request /\ f.slot = g.slot /\ f.answer = g.answer

ExpectedProfiles(e) == {pr[2] : pr \in {q \in expected : q[1] = e}}

\* the number of times value v occurs in the sequence vs
Occurrences(vs, v) == Cardinality({i \in 1..Len(vs) : vs[i] = v})

\* C22: ContactMemory is a finite map from email to profile: get(e) is the
\* profile of the latest set(e, .) not followed by delete(e) or clear(), has(e)
\* holds exactly when get(e) is defined, delete(e) returns true exactly when e
\* was present, getAll() has exactly one profile per present key, and set and
\* delete on one key leave every other key's entry alone.
C22_ContactMemoryIsFiniteMap ==
    /\ \A e \in ContactEmails :
          /\ Cardinality(ExpectedProfiles(e)) <= 1
          /\ MapGet(contacts, e) =
                IF ExpectedProfiles(e) = {} THEN None
                ELSE Some(CHOOSE pf \in ExpectedProfiles(e) : TRUE)
          /\ MapHas(contacts, e) <=> IsPresent(MapGet(contacts, e))
    /\ Len(MapValues(contacts)) = Cardinality({pr[1] : pr \in expected})
    /\ \A pf \in ContactProfiles :
          Occurrences(MapValues(contacts), pf) =
             Cardinality({pr \in expected : pr[2] = pf})
    /\ lastCall.method = "get" =>
          lastCall.result = (IF ExpectedProfiles(lastCall.email) = {} THEN None
                             ELSE Some(CHOOSE pf \in ExpectedProfiles(lastCall.email) : TRUE))
    /\ lastCall.method = "has" =>
          (lastCall.result <=> ExpectedProfiles(lastCall.email) # {})
    /\ lastCall.method = "delete" =>
          (lastCall.result <=> lastCall.profile = <<"present">>)
    /\ lastCall.method = "getAll" =>
          \A pf \in ContactProfiles :
             Occurrences(lastCall.result, pf) = Cardinality({pr \in expected : pr[2] = pf})

C22_Witness ==
    /\ lastCall.method = "delete"
    /\ lastCall.result = TRUE
    /\ Len(contacts) = 1
    /\ MapGet(contacts, contacts[1].key) = Some(contacts[1].value)
    /\ contacts[1].value.email # contacts[1].key

\* C29: however the initialize() calls interleave, the sequence
\* validateConfiguration, initializeServices, performHealthChecks is started at
\* most once until a shutdown.
C29_InitializeRunsOnce == lifecycle.sequenceRuns <= 1

\* C30: after a completed shutdown() the application is not ready until an
\* initialize() that started after that shutdown has completed, and no
\* shutdown() call returns leaving isShuttingDown true.
C30_NotReadyAfterShutdown ==
    /\ (lifecycle.shutdownCompleted /\ ~lifecycle.initializedSince) => ~IsReady
    /\ ~lifecycle.busyAtShutdownReturn

====
